---- MODULE Spec2Model ----
(***************************************************************************)
(* Call session and coin-ledger engine of the Saathii backend.             *)
(*                                                                         *)
(* Every request handler and every background job is a coroutine; each     *)
(* `await` on the database or on Redis is a suspension point, and every    *)
(* statement runs in autocommit (no handler opens a transaction around     *)
(* its statements, except where `conn.transaction()` is written).  A slot  *)
(* of `proc` is one running coroutine: `pc` is the statement it executes   *)
(* next, the other fields are its local variables.                         *)
(*                                                                         *)
(* Time is counted in whole minutes (`now`); a duration of d minutes is    *)
(* duration_seconds // 60 = d.                                             *)
(***************************************************************************)
EXTENDS Integers, Sequences, FiniteSets, Bags, TLC

\* ---------------------------------------------------------------- bounds
NumProcs == 2         \* coroutines that may be in flight at once
MaxCalls == 2         \* start_call requests admitted in one run
MaxTime == 2          \* minutes the clock may advance
MaxTopUps == 1        \* add_coin requests admitted in one run
MaxSweeps == 2        \* runs of each background job admitted in one run
MaxCallMinutes == 5   \* minutes the clock may advance during the call of SpecEarn
RichCoins == 300      \* balance of the customer of SpecEarn

Procs == 1..NumProcs
Customers == {1, 2}
Listeners == {3}
Users == Customers \cup Listeners
UnknownUser == 9                     \* an id with no row in users
InitCoins == (1 :> 10) @@ (2 :> 25)  \* the customers' balances when the run starts
AddCoins == {10}                     \* AddCoinRequest.coins values
NULL == -1                           \* SQL NULL / Python None for an integer column

VARIABLES
  now,       \* wall clock, minutes
  wallets,   \* user_wallets:      user_id -> [exists, balance_coins, withdrawable_money]
  tx,        \* user_transactions: bag of [wallet, tx_type, coins_change] (and
             \* money_change where the statement writes it)
  calls,     \* user_calls:        call_id -> row (call_id = position)
  status,    \* user_status:       user_id -> [is_online, is_busy, wait_time, last_seen]
  badges,    \* listener_badges, the latest row of each listener: listener_id -> row
  redis,     \* Redis keys call:<id>: call_id -> [exists, coins_spent, ttl]
  proc,      \* the coroutines in flight
  user_roles,        \* user_roles: user_id -> role
  listener_profile,  \* listener_profile: listener_id -> [verification_status]
  budget,    \* requests and job runs still to be admitted, by kind (bounds the run)
  billed,    \* call_id -> times process_call_coin_deduction has run for the call
  published, \* user_id -> the state carried by the last user_status_update message
  manager,   \* ConnectionManager: [all_connections, active_connections], and the
             \* websockets whose peer is still there: open
  listener_payout    \* listener_payout: user_id -> payout_account (NULL: no row)

vars == <<now, wallets, tx, calls, status, badges, user_roles, listener_profile, redis, proc,
          budget, billed, published, manager, listener_payout>>

\* ------------------------------------------------------------ schemas/call.py
CallTypes == {"audio", "video"}

\* DEFAULT_CALL_RATES[call_type], a CallRateConfig (a pydantic BaseModel)
DEFAULT_CALL_RATES(ct) ==
  IF ct = "audio" THEN [call_type |-> "audio", rate_per_minute |-> 10, minimum_charge |-> 10]
                  ELSE [call_type |-> "video", rate_per_minute |-> 60, minimum_charge |-> 60]

\* DEFAULT_CALL_RATES[call_type].rate_per_minute: attribute access
rate_per_minute(ct) == DEFAULT_CALL_RATES(ct).rate_per_minute

\* A pydantic model is built only when every required field is passed;
\* unknown keyword arguments are ignored.  Otherwise: ValidationError.
StartCallResponseRequired ==
  {"call_id", "message", "estimated_cost", "remaining_coins", "call_type", "listener_id", "status"}
EndCallResponseRequired ==
  {"call_id", "message", "duration_seconds", "duration_minutes", "coins_spent",
   "user_money_spend", "listener_money_earned", "status"}
AddCoinResponseRequired ==
  {"transaction_id", "coins_added", "money_amount", "new_balance", "message", "created_at"}

\* schemas/wallet.py WithdrawalResponse, the model routes/wallet.py imports
WithdrawalResponseRequired ==
  {"transaction_id", "amount", "new_balance", "message", "created_at"}

Validates(required, passed) == required \subseteq passed

\* ------------------------------------------------------- utils/badge_manager.py
\* BADGE_RATES in hundredths of a rupee per minute
BADGE_RATES(badge, ct) ==
  CASE badge = "basic"  -> IF ct = "audio" THEN 100 ELSE 600
    [] badge = "bronze" -> IF ct = "audio" THEN 125 ELSE 700
    [] badge = "silver" -> IF ct = "audio" THEN 150 ELSE 850
    [] badge = "gold"   -> IF ct = "audio" THEN 180 ELSE 1000

\* date.today(): the calendar day of the clock
MinutesPerDay == 1440
DateOf(t) == t \div MinutesPerDay
Today == DateOf(now)

\* no row of listener_badges
NoBadge == [date |-> NULL, badge |-> "none",
            audio_rate_per_minute |-> 0, video_rate_per_minute |-> 0]

\* the row INSERT INTO listener_badges ... ON CONFLICT (listener_id, date) DO UPDATE writes
BadgeRow(d, badge) ==
  [date |-> d, badge |-> badge,
   audio_rate_per_minute |-> BADGE_RATES(badge, "audio"),
   video_rate_per_minute |-> BADGE_RATES(badge, "video")]

\* an upsert that keeps the row already stored for the date (not the code's)
on_conflict_do_nothing(existing, row) == IF existing.date = row.date THEN existing ELSE row

\* INSERT ... ON CONFLICT (listener_id, date) DO UPDATE SET badge = EXCLUDED.badge,
\* audio_rate_per_minute = EXCLUDED.audio_rate_per_minute, video_rate_per_minute =
\* EXCLUDED.video_rate_per_minute: the stored row takes the inserted values
on_conflict_do_update(existing, row) == row

\* get_listener_badge_for_date: SELECT * FROM listener_badges WHERE listener_id = $1
\* AND date = $2 (NoBadge for None)
get_listener_badge_for_date(l, d) ==
  IF l \in DOMAIN badges /\ badges[l].date = d THEN badges[l] ELSE NoBadge

\* a rate lookup that ignores the listener's badge row (not the code's)
get_listener_earning_rate_basic(l, ct) == BADGE_RATES("basic", ct)

\* get_listener_earning_rate(listener_id, call_type) for date.today()
get_listener_earning_rate(l, ct) ==
  LET badge_data == get_listener_badge_for_date(l, Today) IN
    IF badge_data = NoBadge THEN BADGE_RATES("basic", ct)
    ELSE IF ct = "audio" THEN badge_data.audio_rate_per_minute
    ELSE badge_data.video_rate_per_minute

\* int(listener_rupees_per_minute * minutes)
listener_earnings(rate100, minutes) == (rate100 * minutes) \div 100

\* ------------------------------------------------------------------ tables
\* a Redis key that does not exist
Absent == [exists |-> FALSE, coins_spent |-> 0, ttl |-> NULL]

\* get_user_coin_balance: SELECT balance_coins ...; `result or 0`
get_user_coin_balance(u) ==
  IF u \in DOMAIN wallets /\ wallets[u].exists THEN wallets[u].balance_coins ELSE 0

\* check_user_availability: no ongoing call with the user on either side
check_user_availability(u) ==
  Cardinality({i \in 1..Len(calls) :
      /\ (calls[i].user_id = u \/ calls[i].listener_id = u)
      /\ calls[i].status = "ongoing"}) = 0

\* UPDATE user_wallets SET balance_coins = balance_coins + delta WHERE user_id = u
WalletAdd(u, delta) ==
  IF u \in DOMAIN wallets /\ wallets[u].exists
    THEN [wallets EXCEPT ![u].balance_coins = @ + delta]
    ELSE wallets

\* SELECT wallet_id ...; if wallet_id: INSERT INTO user_transactions
TxInsert(u, tx_type, coins_change) ==
  IF u \in DOMAIN wallets /\ wallets[u].exists
    THEN tx (+) SetToBag({[wallet |-> u, tx_type |-> tx_type, coins_change |-> coins_change]})
    ELSE tx

\* ------------------------------------------------------------- coroutines
Idle ==
  [op |-> "idle", pc |-> "idle", res |-> "none",
   u |-> 0,        \* the authenticated caller of the request
   cu |-> 0,       \* call['user_id']
   l |-> 0,        \* listener_id
   ct |-> "none",  \* call_type
   cid |-> 0,      \* call_id
   st |-> 0,       \* call['start_time']
   spent |-> 0,    \* call['coins_spent'] as read
   bal |-> 0,      \* current_balance as read
   maxmin |-> 0,   \* max_duration_minutes
   endt |-> 0,     \* end_time = datetime.utcnow()
   dur |-> 0,      \* duration_minutes
   tot |-> 0,      \* total_cost
   earn |-> 0,     \* listener_earnings
   reason |-> "none",
   amount |-> 0,   \* WithdrawalRequest.amount
   wuser |-> 0, wamt |-> 0, wop |-> "none", wtx |-> "none",  \* update_user_coin_balance arguments
   busy |-> FALSE, wait |-> NULL, pa |-> 0, pb |-> 0,        \* update_both_users_presence
   ret |-> "none", \* where the coroutine continues after the call it is in
   todo |-> <<>>,  \* rows of a background job's scan still to process
   size |-> 0,     \* broadcast_to_feed: len(all_connections) when the iteration began
   sent |-> {},    \* the connections whose send_text returned
   dead |-> {}]    \* dead_connections

\* the coroutine r has returned or raised: result is the HTTP status of a request
Done(r, result) == [Idle EXCEPT !.op = r.op, !.pc = "done", !.res = result, !.cid = r.cid]

At(p, op, pc) == proc[p].op = op /\ proc[p].pc = pc

Set(p, r) == proc' = [proc EXCEPT ![p] = r]

\* A new coroutine takes the first free slot (the slots are interchangeable).
Free(p) == proc[p].pc = "idle" /\ \A q \in Procs : q < p => proc[q].pc # "idle"

\* ConnectionManager.__init__: active_connections = {}, all_connections = set()
NoConnections == [all_connections |-> {}, active_connections |-> <<>>, open |-> {}]

\* the tables with the given balances, badge rows and call history, nobody on a call
InitTables(coins, badge_rows, history, clock, admitted) ==
  /\ now = clock
  /\ wallets = [u \in Users |->
       [exists |-> TRUE, balance_coins |-> IF u \in Customers THEN coins[u] ELSE 0,
        withdrawable_money |-> 0]]
  /\ tx = SetToBag({[wallet |-> u, tx_type |-> "purchase", coins_change |-> coins[u]] :
                    u \in Customers})
  /\ calls = history
  /\ status = [u \in Users |-> [is_online |-> TRUE, is_busy |-> FALSE, wait_time |-> NULL, last_seen |-> 0]]
  /\ badges = badge_rows
  /\ user_roles = [u \in Users |-> IF u \in Customers THEN "customer" ELSE "listener"]
  /\ listener_profile = [l \in Listeners |-> [verification_status |-> TRUE]]
  /\ redis = [i \in 1..MaxCalls |-> Absent]
  /\ proc = [p \in Procs |-> Idle]
  /\ budget = admitted
  /\ billed = [i \in 1..MaxCalls |-> 0]
  /\ published = [u \in Users |-> [is_online |-> TRUE, is_busy |-> FALSE]]
  /\ manager = NoConnections
  /\ listener_payout = [u \in Users |-> NULL]

\* requests, job runs and minutes admitted in one run
Admit(calls_admitted, topups_admitted, sweeps_admitted, minutes) ==
  [start_call |-> calls_admitted, add_coin |-> topups_admitted,
   deduct |-> sweeps_admitted, cleanup |-> sweeps_admitted, minutes |-> minutes,
   register |-> 0, verify |-> 0, badge_reads |-> 0, badge_sweeps |-> 0, days |-> 0,
   withdrawals |-> 0,
   status_requests |-> 0, presence_cleanup |-> 0, broadcasts |-> 0, sockets |-> 0]

\* the tables after the customers bought their first coins, nobody on a call
InitWith(calls_admitted, topups_admitted, sweeps_admitted) ==
  InitTables(InitCoins, [l \in Listeners |-> NoBadge], <<>>, 0,
             Admit(calls_admitted, topups_admitted, sweeps_admitted, MaxTime))

Init == InitWith(MaxCalls, 0, 0)

\* ------------------------------------------- update_user_coin_balance
\* The coroutine r calls update_user_coin_balance(user, coins, operation, tx_type)
\* and continues at ret when it returns.
Call_update_user_coin_balance(r, user, coins, operation, tx_type, ret) ==
  [r EXCEPT !.wuser = user, !.wamt = coins, !.wop = operation, !.wtx = tx_type, !.ret = ret,
            !.pc = IF operation = "subtract" THEN "ucb_check" ELSE "ucb_add_update"]

\* the coroutine r leaves update_user_coin_balance; in end_call the next
\* statement is update_both_users_presence(call['user_id'], call['listener_id'], False)
Return_update_user_coin_balance(r) ==
  LET r2 == [r EXCEPT !.wuser = 0, !.wamt = 0, !.wop = "none", !.wtx = "none",
                      !.ret = "none", !.pc = r.ret] IN
    IF r.ret = "ec_presence"
      THEN [r2 EXCEPT !.busy = FALSE, !.wait = NULL, !.pa = 0, !.pb = 0,
                      !.ret = "ec_delete", !.pc = "presence"]
      ELSE r2

\* operation == "subtract": current_balance = await get_user_coin_balance(user_id);
\* if current_balance < coins: raise HTTPException(400)
update_user_coin_balance_check(p) ==
  /\ proc[p].pc = "ucb_check"
  /\ IF get_user_coin_balance(proc[p].wuser) < proc[p].wamt
       THEN Set(p, Done(proc[p], "400"))
       ELSE Set(p, [proc[p] EXCEPT !.pc = "ucb_update"])
  /\ UNCHANGED <<now, wallets, tx, calls, status, badges, user_roles, listener_profile, redis, budget, billed, published, manager, listener_payout>>

\* UPDATE user_wallets SET balance_coins = balance_coins - $1 WHERE user_id = $2
update_user_coin_balance_update(p) ==
  /\ proc[p].pc = "ucb_update"
  /\ wallets' = WalletAdd(proc[p].wuser, 0 - proc[p].wamt)
  /\ Set(p, [proc[p] EXCEPT !.pc = "ucb_tx"])
  /\ UNCHANGED <<now, tx, calls, status, badges, user_roles, listener_profile, redis, budget, billed, published, manager, listener_payout>>

\* INSERT INTO user_transactions (wallet_id, tx_type, coins_change) VALUES ($1, $2, -coins)
update_user_coin_balance_tx(p) ==
  /\ proc[p].pc = "ucb_tx"
  /\ tx' = TxInsert(proc[p].wuser, proc[p].wtx, 0 - proc[p].wamt)
  /\ Set(p, Return_update_user_coin_balance(proc[p]))
  /\ UNCHANGED <<now, wallets, calls, status, badges, user_roles, listener_profile, redis, budget, billed, published, manager, listener_payout>>

\* operation == "add": UPDATE user_wallets SET balance_coins = balance_coins + $1
update_user_coin_balance_add_update(p) ==
  /\ proc[p].pc = "ucb_add_update"
  /\ wallets' = WalletAdd(proc[p].wuser, proc[p].wamt)
  /\ Set(p, [proc[p] EXCEPT !.pc = "ucb_add_tx"])
  /\ UNCHANGED <<now, tx, calls, status, badges, user_roles, listener_profile, redis, budget, billed, published, manager, listener_payout>>

\* operation == "add": INSERT INTO user_transactions (...) VALUES (wallet_id, "earn", coins)
update_user_coin_balance_add_tx(p) ==
  /\ proc[p].pc = "ucb_add_tx"
  /\ tx' = TxInsert(proc[p].wuser, "earn", proc[p].wamt)
  /\ Set(p, Return_update_user_coin_balance(proc[p]))
  /\ UNCHANGED <<now, wallets, calls, status, badges, user_roles, listener_profile, redis, budget, billed, published, manager, listener_payout>>

\* ----------------------------------------------- update_both_users_presence
\* asyncio.gather(set_user_busy_status(user_id, ...), set_user_busy_status(listener_id, ...)):
\* two child coroutines, "a" for call user_id and "b" for listener_id, each at
\* step 0 (UPDATE is_busy), 1 (UPDATE is_online) or 3 (returned).
Call_update_both_users_presence(r, is_busy, wait_time, ret) ==
  [r EXCEPT !.busy = is_busy, !.wait = wait_time, !.pa = 0, !.pb = 0, !.ret = ret,
            !.pc = "presence"]

ChildUser(r, k) == IF k = "a" THEN r.cu ELSE r.l
ChildStep(r, k) == IF k = "a" THEN r.pa ELSE r.pb
SetChildStep(r, k, n) == IF k = "a" THEN [r EXCEPT !.pa = n] ELSE [r EXCEPT !.pb = n]

\* A child returns after its last UPDATE, having read the row back
\* (get_user_status_for_broadcast) and handed it to broadcast_user_status_update;
\* the gather returns when both children have returned.
ChildReturns(r, k) ==
  LET r2 == SetChildStep(r, k, 3) IN
    IF r2.pa = 3 /\ r2.pb = 3
      THEN [r2 EXCEPT !.pc = r.ret, !.ret = "none", !.pa = 0, !.pb = 0,
                      !.busy = FALSE, !.wait = NULL]
      ELSE r2

\* status_data = await get_user_status_for_broadcast(user_id); if status_data:
\* await broadcast_user_status_update(user_id, status_data): the message carries
\* the row of user_id as read back from rows
broadcast_user_status_update(user_id, rows) ==
  IF user_id \in DOMAIN published /\ user_id \in DOMAIN rows
    THEN [published EXCEPT ![user_id] =
            [is_online |-> rows[user_id].is_online, is_busy |-> rows[user_id].is_busy]]
    ELSE published

\* UPDATE user_status SET is_busy = $1, wait_time = $2 WHERE user_id = $3
set_user_busy_status_update(p, k) ==
  /\ proc[p].pc = "presence"
  /\ ChildStep(proc[p], k) = 0
  /\ status' = [status EXCEPT ![ChildUser(proc[p], k)] =
                  [@ EXCEPT !.is_busy = proc[p].busy, !.wait_time = proc[p].wait]]
  /\ Set(p, IF proc[p].busy THEN SetChildStep(proc[p], k, 1) ELSE ChildReturns(proc[p], k))
  /\ published' = IF proc[p].busy THEN published
                  ELSE broadcast_user_status_update(ChildUser(proc[p], k), status')
  /\ UNCHANGED <<now, wallets, tx, calls, badges, user_roles, listener_profile, redis, budget, billed, manager, listener_payout>>

\* if is_busy: UPDATE user_status SET is_online = TRUE, last_seen = now()
set_user_busy_status_online(p, k) ==
  /\ proc[p].pc = "presence"
  /\ ChildStep(proc[p], k) = 1
  /\ status' = [status EXCEPT ![ChildUser(proc[p], k)] =
                  [@ EXCEPT !.is_online = TRUE, !.last_seen = now]]
  /\ Set(p, ChildReturns(proc[p], k))
  /\ published' = broadcast_user_status_update(ChildUser(proc[p], k), status')
  /\ UNCHANGED <<now, wallets, tx, calls, badges, user_roles, listener_profile, redis, budget, billed, manager, listener_payout>>

\* ------------------------------------------------------------- start_call
\* POST /calls/start: SELECT the listener from users
start_call(p, u, l, ct) ==
  /\ Free(p)
  /\ budget.start_call > 0
  /\ budget' = [budget EXCEPT !.start_call = @ - 1]
  /\ LET r == [Idle EXCEPT !.op = "start_call", !.u = u, !.l = l, !.ct = ct] IN
       IF l \notin Users
         THEN Set(p, Done(r, "404"))
         ELSE Set(p, [r EXCEPT !.pc = "sc_avail_listener"])
  /\ UNCHANGED <<now, wallets, tx, calls, status, badges, user_roles, listener_profile, redis, billed, published, manager, listener_payout>>

\* if not await check_user_availability(data.listener_id): 409
start_call_avail_listener(p) ==
  /\ At(p, "start_call", "sc_avail_listener")
  /\ IF ~check_user_availability(proc[p].l)
       THEN Set(p, Done(proc[p], "409"))
       ELSE Set(p, [proc[p] EXCEPT !.pc = "sc_avail_caller"])
  /\ UNCHANGED <<now, wallets, tx, calls, status, badges, user_roles, listener_profile, redis, budget, billed, published, manager, listener_payout>>

\* if not await check_user_availability(user_id): 409
start_call_avail_caller(p) ==
  /\ At(p, "start_call", "sc_avail_caller")
  /\ IF ~check_user_availability(proc[p].u)
       THEN Set(p, Done(proc[p], "409"))
       ELSE Set(p, [proc[p] EXCEPT !.pc = "sc_balance"])
  /\ UNCHANGED <<now, wallets, tx, calls, status, badges, user_roles, listener_profile, redis, budget, billed, published, manager, listener_payout>>

\* INSERT INTO user_wallets ... ON CONFLICT (user_id) DO NOTHING;
\* current_balance = await get_user_coin_balance(user_id); 400 below one minute's
\* rate; max_duration_minutes; then update_user_coin_balance(user_id, rate, "subtract", "spend")
start_call_balance(p) ==
  /\ At(p, "start_call", "sc_balance")
  /\ wallets' = IF wallets[proc[p].u].exists THEN wallets
                ELSE [wallets EXCEPT ![proc[p].u] = [exists |-> TRUE, balance_coins |-> 0, withdrawable_money |-> 0]]
  /\ LET current_balance == get_user_coin_balance(proc[p].u)
         rate == rate_per_minute(proc[p].ct) IN
       IF current_balance < rate
         THEN Set(p, Done(proc[p], "400"))
         ELSE Set(p, Call_update_user_coin_balance(
                       [proc[p] EXCEPT !.bal = current_balance,
                                       !.maxmin = current_balance \div rate],
                       proc[p].u, rate, "subtract", "spend", "sc_insert"))
  /\ UNCHANGED <<now, tx, calls, status, badges, user_roles, listener_profile, redis, budget, billed, published, manager, listener_payout>>

\* INSERT INTO user_calls (user_id, listener_id, call_type, status, coins_spent,
\* listener_money_earned) VALUES ($1, $2, $3, 'ongoing', rate, 0); then
\* update_both_users_presence(user_id, listener_id, True, max_duration_minutes)
start_call_insert(p) ==
  /\ At(p, "start_call", "sc_insert")
  /\ calls' = Append(calls,
       [user_id |-> proc[p].u, listener_id |-> proc[p].l, call_type |-> proc[p].ct,
        status |-> "ongoing", start_time |-> now, end_time |-> NULL,
        duration_minutes |-> NULL, coins_spent |-> rate_per_minute(proc[p].ct),
        listener_money_earned |-> 0])
  /\ Set(p, Call_update_both_users_presence(
              [proc[p] EXCEPT !.cid = Len(calls) + 1, !.cu = proc[p].u],
              TRUE, proc[p].maxmin, "sc_hset"))
  /\ UNCHANGED <<now, wallets, tx, status, badges, user_roles, listener_profile, redis, budget, billed, published, manager, listener_payout>>

\* await redis_client.hset(call_key, mapping={..., "coins_spent": str(rate_per_minute)})
start_call_hset(p) ==
  /\ At(p, "start_call", "sc_hset")
  /\ redis' = [redis EXCEPT ![proc[p].cid] =
                 [exists |-> TRUE, coins_spent |-> rate_per_minute(proc[p].ct),
                  ttl |-> IF @.exists THEN @.ttl ELSE NULL]]
  /\ Set(p, [proc[p] EXCEPT !.pc = "sc_expire"])
  /\ UNCHANGED <<now, wallets, tx, calls, status, badges, user_roles, listener_profile, budget, billed, published, manager, listener_payout>>

\* await redis_client.expire(call_key, 7200); return StartCallResponse(call_id=,
\* message=, call_duration=, remaining_coins=, call_type=, listener_id=, status=)
start_call_expire(p) ==
  /\ At(p, "start_call", "sc_expire")
  /\ redis' = [redis EXCEPT ![proc[p].cid] =
                 IF @.exists THEN [@ EXCEPT !.ttl = 7200] ELSE @]
  /\ Set(p, Done(proc[p],
       IF Validates(StartCallResponseRequired,
                    {"call_id", "message", "call_duration", "remaining_coins",
                     "call_type", "listener_id", "status"})
         THEN "200" ELSE "500"))
  /\ UNCHANGED <<now, wallets, tx, calls, status, badges, user_roles, listener_profile, budget, billed, published, manager, listener_payout>>

\* --------------------------------------------------------------- end_call
Reasons == {"None", "dropped", "coin_empty"}   \* EndCallRequest.reason values sent

\* CallStatus
CallStatus == {"ongoing", "completed", "dropped"}

\* Whether the UPDATE that stores new_status is executed: the status column of
\* user_calls is declared outside this repository; a text column takes any string,
\* an enumerated or CHECKed column rejects a value that is no CallStatus.
StatusAccepted(new_status) == IF new_status \in CallStatus THEN {TRUE} ELSE BOOLEAN

Max(a, b) == IF a >= b THEN a ELSE b

\* POST /calls/end: SELECT * FROM user_calls WHERE call_id = $1 AND (user_id = $2 OR
\* listener_id = $2) AND status = 'ongoing'; 404 if none; end_time = utcnow();
\* duration_minutes = max(1, duration_seconds // 60); total_cost; additional_cost
end_call(p, u, cid, reason) ==
  /\ Free(p)
  /\ LET r == [Idle EXCEPT !.op = "end_call", !.u = u, !.cid = cid, !.reason = reason] IN
       IF ~(/\ cid \in 1..Len(calls)
            /\ (calls[cid].user_id = u \/ calls[cid].listener_id = u)
            /\ calls[cid].status = "ongoing")
         THEN Set(p, Done(r, "404"))
         ELSE LET call == calls[cid]
                  duration_minutes == Max(1, now - call.start_time)
                  total_cost == duration_minutes * rate_per_minute(call.call_type)
                  additional_cost == total_cost - call.coins_spent
              IN Set(p, [r EXCEPT !.cu = call.user_id, !.l = call.listener_id,
                                  !.ct = call.call_type, !.st = call.start_time,
                                  !.spent = call.coins_spent, !.endt = now,
                                  !.dur = duration_minutes,
                                  !.tot = total_cost,
                                  !.pc = IF additional_cost > 0 THEN "ec_balance" ELSE "ec_update"])
  /\ UNCHANGED <<now, wallets, tx, calls, status, badges, user_roles, listener_profile, redis, budget, billed, published, manager, listener_payout>>

\* if additional_cost > 0: current_balance = await get_user_coin_balance(user_id),
\* user_id being the caller of end_call; the insufficient-coins branch if it is
\* below additional_cost, else update_user_coin_balance(user_id, additional_cost,
\* "subtract", "spend")
end_call_balance(p) ==
  /\ At(p, "end_call", "ec_balance")
  /\ LET additional_cost == proc[p].tot - proc[p].spent
         current_balance == get_user_coin_balance(proc[p].u) IN
       IF current_balance < additional_cost
         THEN Set(p, [proc[p] EXCEPT !.bal = current_balance, !.pc = "ec_drop_update"])
         ELSE Set(p, Call_update_user_coin_balance(
                       [proc[p] EXCEPT !.bal = current_balance],
                       proc[p].u, additional_cost, "subtract", "spend", "ec_update"))
  /\ UNCHANGED <<now, wallets, tx, calls, status, badges, user_roles, listener_profile, redis, budget, billed, published, manager, listener_payout>>

\* The row end_call writes: UPDATE user_calls SET end_time, duration_seconds,
\* duration_minutes, coins_spent = total_cost, listener_money_earned, status
\* WHERE call_id = $n
EndCallRow(row, r, earnings, new_status) ==
  [row EXCEPT !.end_time = r.endt,
              !.duration_minutes = r.dur, !.coins_spent = r.tot,
              !.listener_money_earned = earnings, !.status = new_status]

\* Insufficient coins: listener_earnings = int(rate * duration_minutes); the UPDATE
\* with status = 'dropped'; then update_user_coin_balance(listener_id, earnings, "add", "earn")
end_call_drop_update(p) ==
  /\ At(p, "end_call", "ec_drop_update")
  /\ LET earnings == listener_earnings(get_listener_earning_rate(proc[p].l, proc[p].ct),
                                       proc[p].dur) IN
       /\ calls' = [calls EXCEPT ![proc[p].cid] = EndCallRow(@, proc[p], earnings, "dropped")]
       /\ Set(p, Call_update_user_coin_balance(
                   [proc[p] EXCEPT !.earn = earnings, !.reason = "dropped"],
                   proc[p].l, earnings, "add", "earn", "ec_presence"))
  /\ UNCHANGED <<now, wallets, tx, status, badges, user_roles, listener_profile, redis, budget, billed, published, manager, listener_payout>>

\* listener_earnings = int(rate * duration_minutes); the UPDATE with
\* status = data.reason or "completed"; then update_user_coin_balance(listener_id,
\* earnings, "add", "earn").  A rejected UPDATE raises and the request ends in 500.
end_call_update(p) ==
  /\ At(p, "end_call", "ec_update")
  /\ LET earnings == listener_earnings(get_listener_earning_rate(proc[p].l, proc[p].ct),
                                       proc[p].dur)
         new_status == IF proc[p].reason = "None" THEN "completed" ELSE proc[p].reason IN
       \E accepted \in StatusAccepted(new_status) :
         IF accepted
           THEN /\ calls' = [calls EXCEPT ![proc[p].cid] =
                                EndCallRow(@, proc[p], earnings, new_status)]
                /\ Set(p, Call_update_user_coin_balance(
                            [proc[p] EXCEPT !.earn = earnings],
                            proc[p].l, earnings, "add", "earn", "ec_presence"))
           ELSE /\ calls' = calls
                /\ Set(p, Done(proc[p], "500"))
  /\ UNCHANGED <<now, wallets, tx, status, badges, user_roles, listener_profile, redis, budget, billed, published, manager, listener_payout>>

\* await redis_client.delete(f"call:{call_id}"); return EndCallResponse(call_id=,
\* message=, duration_seconds=, duration_minutes=, coins_spent=,
\* listener_money_earned=, status=)
end_call_delete(p) ==
  /\ At(p, "end_call", "ec_delete")
  /\ redis' = [redis EXCEPT ![proc[p].cid] = Absent]
  /\ Set(p, Done(proc[p],
       IF Validates(EndCallResponseRequired,
                    {"call_id", "message", "duration_seconds", "duration_minutes",
                     "coins_spent", "listener_money_earned", "status"})
         THEN "200" ELSE "500"))
  /\ UNCHANGED <<now, wallets, tx, calls, status, badges, user_roles, listener_profile, budget, billed, published, manager, listener_payout>>

\* ------------------------------------------------------ add_coin_to_wallet
\* POST /add_coin (tx_type "purchase"): wallet = SELECT wallet_id, balance_coins
\* (created with balance 0 if missing); new_balance = wallet['balance_coins'] + coins
add_coin_to_wallet(p, u, coins) ==
  /\ Free(p)
  /\ budget.add_coin > 0
  /\ budget' = [budget EXCEPT !.add_coin = @ - 1]
  /\ wallets' = IF wallets[u].exists THEN wallets
                ELSE [wallets EXCEPT ![u] = [exists |-> TRUE, balance_coins |-> 0, withdrawable_money |-> 0]]
  /\ Set(p, [Idle EXCEPT !.op = "add_coin", !.pc = "ac_update", !.u = u, !.wamt = coins,
                         !.bal = get_user_coin_balance(u)])
  /\ UNCHANGED <<now, tx, calls, status, badges, user_roles, listener_profile, redis, billed, published, manager, listener_payout>>

\* UPDATE user_wallets SET balance_coins = $1 (new_balance) WHERE wallet_id = $2
add_coin_to_wallet_update(p) ==
  /\ At(p, "add_coin", "ac_update")
  /\ wallets' = [wallets EXCEPT ![proc[p].u].balance_coins = proc[p].bal + proc[p].wamt]
  /\ Set(p, [proc[p] EXCEPT !.pc = "ac_tx"])
  /\ UNCHANGED <<now, tx, calls, status, badges, user_roles, listener_profile, redis, budget, billed, published, manager, listener_payout>>

\* INSERT INTO user_transactions (wallet_id, tx_type, coins_change, money_change);
\* return AddCoinResponse(transaction_id=, coins_added=, new_balance=, message=, created_at=)
add_coin_to_wallet_tx(p) ==
  /\ At(p, "add_coin", "ac_tx")
  /\ tx' = TxInsert(proc[p].u, "purchase", proc[p].wamt)
  /\ Set(p, Done(proc[p],
       IF Validates(AddCoinResponseRequired,
                    {"transaction_id", "coins_added", "new_balance", "message", "created_at"})
         THEN "200" ELSE "500"))
  /\ UNCHANGED <<now, wallets, calls, status, badges, user_roles, listener_profile, redis, budget, billed, published, manager, listener_payout>>

\* --------------------------------------------------------- background jobs
\* cleanup_expired_calls: its SELECT names call_id, user_id, listener_id unqualified
\* over user_calls JOIN user_status us1 JOIN user_status us2; user_id is a column of
\* all three, so the statement is rejected (ambiguous column reference) before any
\* row is read; the exception leaves cleanup_expired_calls and the script returns 1.
cleanup_expired_calls(p) ==
  /\ Free(p)
  /\ budget.cleanup > 0
  /\ budget' = [budget EXCEPT !.cleanup = @ - 1]
  /\ Set(p, Done([Idle EXCEPT !.op = "cleanup_expired_calls"], "error"))
  /\ UNCHANGED <<now, wallets, tx, calls, status, badges, user_roles, listener_profile, redis, billed, published, manager, listener_payout>>

\* call_cleanup.py is started again by its schedule (every 10 minutes) once the
\* previous run has exited
call_cleanup_schedule ==
  /\ budget.cleanup = 0
  /\ \A p \in Procs : proc[p].op # "cleanup_expired_calls"
  /\ budget' = [budget EXCEPT !.cleanup = 1]
  /\ UNCHANGED <<now, wallets, tx, calls, status, badges, user_roles, listener_profile, redis, proc, billed, published, manager, listener_payout>>

\* SelectSeq over the call ids 1..n in order
RECURSIVE OngoingFrom(_)
OngoingFrom(i) ==
  IF i > Len(calls) THEN <<>>
  ELSE IF calls[i].status = "ongoing" THEN <<i>> \o OngoingFrom(i + 1)
  ELSE OngoingFrom(i + 1)

\* the rows of the calls ids as the SELECT returns them: <<call_id, coins_spent>>
OngoingRows(ids) == [k \in 1..Len(ids) |-> <<ids[k], calls[ids[k]].coins_spent>>]

\* deduct_per_minute_coins: SELECT call_id, ..., coins_spent FROM user_calls WHERE
\* status = 'ongoing' ORDER BY start_time ASC; return if there is none
deduct_per_minute_coins(p) ==
  /\ Free(p)
  /\ budget.deduct > 0
  /\ budget' = [budget EXCEPT !.deduct = @ - 1]
  /\ LET r == [Idle EXCEPT !.op = "deduct_per_minute_coins"] IN
       IF OngoingFrom(1) = <<>>
         THEN Set(p, Done(r, "ok"))
         ELSE Set(p, [r EXCEPT !.pc = "dp_process", !.todo = OngoingRows(OngoingFrom(1))])
  /\ UNCHANGED <<now, wallets, tx, calls, status, badges, user_roles, listener_profile, redis, billed, published, manager, listener_payout>>

\* the lookup written as DEFAULT_CALL_RATES[call_type].rate_per_minute (not the job's)
rate_per_minute_attribute(ct) == [raised |-> "none", value |-> rate_per_minute(ct)]

\* DEFAULT_CALL_RATES[call_type]["rate_per_minute"]: subscripting a CallRateConfig,
\* which defines no __getitem__, raises TypeError
rate_per_minute_subscript(ct) == [raised |-> "TypeError", value |-> 0]

\* a loop that stops at the first call whose processing raised (not the job's)
except_break(rest) == <<>>

\* except Exception as e: logger.error(...); continue: the calls still to be
\* processed after one call's processing raised
except_continue(rest) == rest

\* for call in ongoing_calls: try: await process_call_coin_deduction(conn, call)
\* except Exception: continue.  process_call_coin_deduction computes the duration and
\* then evaluates the rate (line 58), which raises before any balance is read.  The
\* statements after line 58 are taken as one step: with less than the rate in the
\* wallet end_call_due_to_insufficient_coins runs, whose transaction is rolled back
\* by conn.get_cursor() (no such attribute of the connection); otherwise the rate is
\* debited, coins_spent = coins_already_spent + rate is stored on the row if it is
\* still ongoing, and written to the Redis hash.
process_call_coin_deduction(p) ==
  /\ At(p, "deduct_per_minute_coins", "dp_process")
  /\ LET call_id == Head(proc[p].todo)[1]
         coins_already_spent == Head(proc[p].todo)[2]
         user_id == calls[call_id].user_id
         rate == rate_per_minute_subscript(calls[call_id].call_type)
         rest == IF rate.raised = "TypeError" THEN except_continue(Tail(proc[p].todo))
                 ELSE Tail(proc[p].todo)
         current_balance == get_user_coin_balance(user_id)
         new_total_coins_spent == coins_already_spent + rate.value IN
       /\ IF rate.raised = "TypeError" \/ current_balance < rate.value
            THEN UNCHANGED <<wallets, tx, calls, redis>>
            ELSE /\ wallets' = WalletAdd(user_id, 0 - rate.value)
                 /\ tx' = TxInsert(user_id, "spend", 0 - rate.value)
                 /\ calls' = IF calls[call_id].status = "ongoing"
                               THEN [calls EXCEPT ![call_id].coins_spent = new_total_coins_spent]
                               ELSE calls
                 /\ redis' = [redis EXCEPT ![call_id] =
                                [exists |-> TRUE, coins_spent |-> new_total_coins_spent,
                                 ttl |-> IF @.exists THEN @.ttl ELSE NULL]]
       /\ billed' = [billed EXCEPT ![call_id] = @ + 1]
       /\ IF rest = <<>>
            THEN Set(p, Done(proc[p], "ok"))
            ELSE Set(p, [proc[p] EXCEPT !.todo = rest])
  /\ UNCHANGED <<now, status, badges, user_roles, listener_profile, budget, published, manager, listener_payout>>

\* ------------------------------------------------- registration and badges
NewUsers == {4}                      \* ids the users sequence hands out next
Roles == {"customer", "listener"}

\* POST /auth/both/register: INSERT INTO users ... RETURNING *; INSERT INTO user_roles
register_user(p, u, role) ==
  /\ Free(p)
  /\ budget.register > 0
  /\ u \notin DOMAIN user_roles
  /\ budget' = [budget EXCEPT !.register = @ - 1]
  /\ user_roles' = (u :> role) @@ user_roles
  /\ Set(p, [Idle EXCEPT !.op = "register_user", !.u = u,
                         !.pc = IF role = "listener" THEN "ru_badge" ELSE "ru_status"])
  /\ UNCHANGED <<now, wallets, tx, calls, status, badges, listener_profile, redis, billed, published, manager, listener_payout>>

\* assign_basic_badge_for_today: INSERT INTO listener_badges (listener_id, date, badge,
\* audio_rate_per_minute, video_rate_per_minute, assigned_at) VALUES ($1, today, 'basic',
\* ...) ON CONFLICT (listener_id, date) DO UPDATE ... RETURNING *
assign_basic_badge_for_today(l) ==
  (l :> on_conflict_do_update(IF l \in DOMAIN badges THEN badges[l] ELSE NoBadge,
                              BadgeRow(Today, "basic"))) @@ badges

\* if normalized_role == "listener": await assign_basic_badge_for_today(user_id)
register_user_badge(p) ==
  /\ At(p, "register_user", "ru_badge")
  /\ badges' = assign_basic_badge_for_today(proc[p].u)
  /\ Set(p, [proc[p] EXCEPT !.pc = "ru_profile"])
  /\ UNCHANGED <<now, wallets, tx, calls, status, user_roles, listener_profile, redis, budget, billed, published, manager, listener_payout>>

\* INSERT INTO listener_profile (listener_id, verification_status, ...) VALUES ($1, False, ...)
register_user_profile(p) ==
  /\ At(p, "register_user", "ru_profile")
  /\ listener_profile' = (proc[p].u :> [verification_status |-> FALSE]) @@ listener_profile
  /\ Set(p, [proc[p] EXCEPT !.pc = "ru_status"])
  /\ UNCHANGED <<now, wallets, tx, calls, status, badges, user_roles, redis, budget, billed, published, manager, listener_payout>>

\* INSERT INTO user_status (is_online TRUE, is_busy FALSE); INSERT INTO user_wallets
\* (balance_coins 0) ON CONFLICT DO NOTHING; the tokens are issued and returned
register_user_status(p) ==
  /\ At(p, "register_user", "ru_status")
  /\ status' = (proc[p].u :> [is_online |-> TRUE, is_busy |-> FALSE, wait_time |-> NULL,
                              last_seen |-> now]) @@ status
  /\ wallets' = (proc[p].u :> [exists |-> TRUE, balance_coins |-> 0, withdrawable_money |-> 0]) @@ wallets
  /\ Set(p, Done(proc[p], "200"))
  /\ UNCHANGED <<now, tx, calls, badges, user_roles, listener_profile, redis, budget, billed, published, manager, listener_payout>>

\* /ws/verification: SELECT verification_status FROM listener_profile; if it is not
\* set: UPDATE listener_profile SET verification_status = TRUE
websocket_verification(l) ==
  /\ budget.verify > 0
  /\ l \in DOMAIN listener_profile
  /\ budget' = [budget EXCEPT !.verify = @ - 1]
  /\ listener_profile' = [listener_profile EXCEPT ![l].verification_status = TRUE]
  /\ UNCHANGED <<now, wallets, tx, calls, status, badges, user_roles, redis, proc, billed, published, manager, listener_payout>>

\* the columns of a listener_badges row, as the INSERT ... RETURNING * names them
BadgeRowColumns ==
  {"listener_id", "date", "badge", "audio_rate_per_minute", "video_rate_per_minute",
   "assigned_at", "updated_at"}

\* the keys get_current_badge reads from badge_info to build its response
BadgeResponseReads ==
  {"badge", "audio_rate_per_minute", "video_rate_per_minute", "assigned_date", "assigned_at"}

\* return {"listener_id": ..., "current_badge": badge_info['badge'], ...,
\* "assigned_date": badge_info['assigned_date'], ...}: KeyError for a missing key
BadgeCurrentResponse(badge_info) ==
  IF BadgeResponseReads \subseteq BadgeRowColumns THEN badge_info.badge ELSE "500"

\* a finished request that still names its account
DoneFor(r, result) == [Done(r, result) EXCEPT !.u = r.u]

\* GET /listener/badge/current by a registered account: validate_user_active;
\* enforce_listener_verified (403 without the listener role, 403 while
\* verification_status is not set)
get_current_badge(p, u) ==
  /\ Free(p)
  /\ budget.badge_reads > 0
  /\ u \in DOMAIN wallets
  /\ budget' = [budget EXCEPT !.badge_reads = @ - 1]
  /\ LET r == [Idle EXCEPT !.op = "get_current_badge", !.u = u] IN
       IF user_roles[u] # "listener" THEN Set(p, DoneFor(r, "403"))
       ELSE IF ~listener_profile[u].verification_status THEN Set(p, DoneFor(r, "403"))
       ELSE Set(p, [r EXCEPT !.pc = "gb_read"])
  /\ UNCHANGED <<now, wallets, tx, calls, status, badges, user_roles, listener_profile, redis, billed, published, manager, listener_payout>>

\* badge_info = await get_current_listener_badge(user_id), today's row
get_current_badge_read(p) ==
  /\ At(p, "get_current_badge", "gb_read")
  /\ LET badge_info == get_listener_badge_for_date(proc[p].u, Today) IN
       IF badge_info = NoBadge
         THEN Set(p, [proc[p] EXCEPT !.pc = "gb_assign"])
         ELSE Set(p, DoneFor(proc[p], BadgeCurrentResponse(badge_info)))
  /\ UNCHANGED <<now, wallets, tx, calls, status, badges, user_roles, listener_profile, redis, budget, billed, published, manager, listener_payout>>

\* if not badge_info: badge_info = await assign_basic_badge_for_today(user_id)
get_current_badge_assign(p) ==
  /\ At(p, "get_current_badge", "gb_assign")
  /\ badges' = assign_basic_badge_for_today(proc[p].u)
  /\ Set(p, DoneFor(proc[p], BadgeCurrentResponse(BadgeRow(Today, "basic"))))
  /\ UNCHANGED <<now, wallets, tx, calls, status, user_roles, listener_profile, redis, budget, billed, published, manager, listener_payout>>

\* BADGE_THRESHOLDS, hours of calls on the previous day
BADGE_THRESHOLDS(badge) ==
  CASE badge = "basic" -> 0 [] badge = "bronze" -> 3 [] badge = "silver" -> 6 [] badge = "gold" -> 9

\* a variant of calculate_daily_call_duration that counts every settled call (not the code's)
RECURSIVE calculate_daily_call_duration_settled(_, _, _)
calculate_daily_call_duration_settled(listener_id, target_date, i) ==
  IF i > Len(calls) THEN 0
  ELSE (IF /\ calls[i].listener_id = listener_id
           /\ DateOf(calls[i].start_time) = target_date
           /\ calls[i].status \in {"completed", "dropped"}
          THEN calls[i].duration_minutes ELSE 0)
       + calculate_daily_call_duration_settled(listener_id, target_date, i + 1)

\* calculate_daily_call_duration: SELECT COALESCE(SUM(duration_minutes), 0) FROM user_calls
\* WHERE listener_id = $1 AND DATE(start_time) = $2 AND status = 'completed', summed
\* over the rows from call_id i on; the result is kept in minutes
RECURSIVE calculate_daily_call_duration(_, _, _)
calculate_daily_call_duration(listener_id, target_date, i) ==
  IF i > Len(calls) THEN 0
  ELSE (IF /\ calls[i].listener_id = listener_id
           /\ DateOf(calls[i].start_time) = target_date
           /\ calls[i].status = "completed"
          THEN calls[i].duration_minutes ELSE 0)
       + calculate_daily_call_duration(listener_id, target_date, i + 1)

\* determine_badge_for_duration(total_minutes / 60.0): duration_hours >= threshold,
\* which for whole minutes is total_minutes >= 60 * threshold
determine_badge_for_duration(total_minutes) ==
  IF total_minutes >= 60 * BADGE_THRESHOLDS("gold") THEN "gold"
  ELSE IF total_minutes >= 60 * BADGE_THRESHOLDS("silver") THEN "silver"
  ELSE IF total_minutes >= 60 * BADGE_THRESHOLDS("bronze") THEN "bronze"
  ELSE "basic"

\* the ids of S in ascending order
RECURSIVE Ascending(_)
Ascending(S) ==
  IF S = {} THEN <<>>
  ELSE LET m == CHOOSE x \in S : \A y \in S : x <= y IN <<m>> \o Ascending(S \ {m})

\* assign_daily_badges: today = date.today(); assign_badges_for_all_listeners(today):
\* SELECT ur.user_id FROM user_roles ur WHERE ur.role = 'listener'
assign_badges_for_all_listeners(p) ==
  /\ Free(p)
  /\ budget.badge_sweeps > 0
  /\ budget' = [budget EXCEPT !.badge_sweeps = @ - 1]
  /\ LET listeners == Ascending({u \in DOMAIN user_roles : user_roles[u] = "listener"})
         r == [Idle EXCEPT !.op = "assign_daily_badges", !.st = Today, !.todo = listeners] IN
       IF listeners = <<>> THEN Set(p, Done(r, "ok"))
       ELSE Set(p, [r EXCEPT !.pc = "ab_duration"])
  /\ UNCHANGED <<now, wallets, tx, calls, status, badges, user_roles, listener_profile, redis, billed, published, manager, listener_payout>>

\* assign_badge_for_date(listener, target_date): previous_date = target_date - 1 day;
\* duration_hours = await calculate_daily_call_duration(listener_id, previous_date)
assign_badge_for_date_duration(p) ==
  /\ At(p, "assign_daily_badges", "ab_duration")
  /\ Set(p, [proc[p] EXCEPT
               !.dur = calculate_daily_call_duration(Head(proc[p].todo), proc[p].st - 1, 1),
               !.pc = "ab_insert"])
  /\ UNCHANGED <<now, wallets, tx, calls, status, badges, user_roles, listener_profile, redis, budget, billed, published, manager, listener_payout>>

\* badge = determine_badge_for_duration(duration_hours); INSERT INTO listener_badges
\* (listener_id, date, badge, audio_rate_per_minute, video_rate_per_minute, assigned_at)
\* ... ON CONFLICT (listener_id, date) DO UPDATE.  badges keeps each listener's latest row.
assign_badge_for_date_insert(p) ==
  /\ At(p, "assign_daily_badges", "ab_insert")
  /\ LET l == Head(proc[p].todo)
         rest == Tail(proc[p].todo)
         row == BadgeRow(proc[p].st, determine_badge_for_duration(proc[p].dur)) IN
       /\ badges' = IF l \in DOMAIN badges /\ badges[l].date > proc[p].st
                      THEN badges
                      ELSE (l :> on_conflict_do_update(
                                   IF l \in DOMAIN badges THEN badges[l] ELSE NoBadge, row))
                           @@ badges
       /\ IF rest = <<>> THEN Set(p, Done(proc[p], "ok"))
          ELSE Set(p, [proc[p] EXCEPT !.todo = rest, !.pc = "ab_duration"])
  /\ UNCHANGED <<now, wallets, tx, calls, status, user_roles, listener_profile, redis, budget, billed, published, manager, listener_payout>>

\* ------------------------------------------------------- ConnectionManager
Connections == {1, 2, 3}                       \* websockets
ConnectionUser(c) == IF c = 3 THEN 3 ELSE 1    \* the user_id a websocket connected with

\* disconnect(websocket, user_id): discard from active_connections[user_id], delete
\* the key if the set is empty; discard from all_connections
disconnect(m, c, user_id) ==
  LET active == IF user_id \in DOMAIN m.active_connections
                  THEN IF m.active_connections[user_id] \ {c} = {}
                         THEN [u \in DOMAIN m.active_connections \ {user_id} |->
                                 m.active_connections[u]]
                         ELSE [m.active_connections EXCEPT ![user_id] = @ \ {c}]
                  ELSE m.active_connections IN
    [m EXCEPT !.active_connections = active, !.all_connections = @ \ {c}]

\* the websocket endpoint of a client that went away calls manager.disconnect
websocket_disconnect(c) ==
  /\ budget.sockets > 0
  /\ c \in manager.all_connections
  /\ budget' = [budget EXCEPT !.sockets = @ - 1]
  /\ manager' = [disconnect(manager, c, ConnectionUser(c)) EXCEPT !.open = @ \ {c}]
  /\ UNCHANGED <<now, wallets, tx, calls, status, badges, user_roles, listener_profile, redis, proc, billed, published, listener_payout>>

\* connect(websocket, user_id): await websocket.accept(); add the websocket to
\* active_connections[user_id] and to all_connections
connect(c) ==
  /\ budget.sockets > 0
  /\ c \notin manager.all_connections
  /\ budget' = [budget EXCEPT !.sockets = @ - 1]
  /\ LET user_id == ConnectionUser(c)
         mine == IF user_id \in DOMAIN manager.active_connections
                   THEN manager.active_connections[user_id] ELSE {} IN
       manager' = [manager EXCEPT
                     !.active_connections = (user_id :> (mine \cup {c})) @@ @,
                     !.all_connections = @ \cup {c},
                     !.open = @ \cup {c}]
  /\ UNCHANGED <<now, wallets, tx, calls, status, badges, user_roles, listener_profile, redis, proc, billed, published, listener_payout>>

\* for connection in dead_connections: for user_id, connections in
\* self.active_connections.items(): if connection in connections:
\* self.disconnect(connection, user_id); break
RECURSIVE disconnect_dead(_, _)
disconnect_dead(m, dead_connections) ==
  IF dead_connections = {} THEN m
  ELSE LET c == CHOOSE x \in dead_connections : TRUE
           owners == {u \in DOMAIN m.active_connections : c \in m.active_connections[u]} IN
         disconnect_dead(IF owners = {} THEN m
                         ELSE disconnect(m, c, CHOOSE u \in owners : TRUE),
                         dead_connections \ {c})

\* One turn of `for connection in self.all_connections` by the coroutine with
\* locals r: the set iterator raises RuntimeError (Set changed size during
\* iteration) if the set's size is no longer the one it began with, and the
\* exception leaves broadcast_to_feed; otherwise the next connection is sent the
\* message (try: await connection.send_text(...) except:
\* dead_connections.add(connection)), or, the set exhausted, the dead connections
\* are disconnected and the broadcast returns.
broadcast_turn(p, r) ==
  LET rest == manager.all_connections \ (r.sent \cup r.dead) IN
    IF Cardinality(manager.all_connections) # r.size
      THEN /\ Set(p, [r EXCEPT !.pc = "done", !.res = "RuntimeError"])
           /\ manager' = manager
      ELSE IF rest = {}
        THEN /\ Set(p, [r EXCEPT !.pc = "done", !.res = "ok"])
             /\ manager' = disconnect_dead(manager, r.dead)
        ELSE /\ \E c \in rest :
                  Set(p, IF c \in manager.open THEN [r EXCEPT !.sent = @ \cup {c}]
                         ELSE [r EXCEPT !.dead = @ \cup {c}])
             /\ manager' = manager

\* broadcast_to_feed(message): dead_connections = set(); the iteration over
\* self.all_connections begins and runs to its first await
broadcast_to_feed(p) ==
  /\ Free(p)
  /\ budget.broadcasts > 0
  /\ budget' = [budget EXCEPT !.broadcasts = @ - 1]
  /\ broadcast_turn(p, [Idle EXCEPT !.op = "broadcast_to_feed", !.pc = "bf_send",
                                    !.size = Cardinality(manager.all_connections)])
  /\ UNCHANGED <<now, wallets, tx, calls, status, badges, user_roles, listener_profile, redis, billed, published, listener_payout>>

\* the send awaited has returned or raised: the next turn of the loop
broadcast_to_feed_send(p) ==
  /\ At(p, "broadcast_to_feed", "bf_send")
  /\ broadcast_turn(p, proc[p])
  /\ UNCHANGED <<now, wallets, tx, calls, status, badges, user_roles, listener_profile, redis, budget, billed, published, listener_payout>>

\* ------------------------------------------------------------- withdrawals
WithdrawalAmounts == {3, 5, 6}       \* WithdrawalRequest.amount values (gt=0), rupees

\* VALUES ($1, 'withdraw', -$2, now()): the parameter is negated before it meets the
\* column, so its type is left to the server's resolution of the prefix operator;
\* the statement is either prepared and run, or rejected
NegatedParameterAccepted == {TRUE, FALSE}

\* POST /listener/withdraw: check_listener_role, SELECT role FROM user_roles WHERE
\* user_id = $1 AND role = 'listener' AND active = true; 403 if none
request_withdrawal(p, u, amount) ==
  /\ Free(p)
  /\ budget.withdrawals > 0
  /\ budget' = [budget EXCEPT !.withdrawals = @ - 1]
  /\ LET r == [Idle EXCEPT !.op = "request_withdrawal", !.u = u, !.amount = amount] IN
       IF user_roles[u] # "listener" THEN Set(p, DoneFor(r, "403"))
       ELSE Set(p, [r EXCEPT !.pc = "rw_wallet"])
  /\ UNCHANGED <<now, wallets, tx, calls, status, badges, user_roles, listener_profile, redis, billed, published, manager, listener_payout>>

\* wallet = SELECT wallet_id, withdrawable_money FROM user_wallets WHERE user_id = $1;
\* 404 if none; 400 if amount > wallet['withdrawable_money']
request_withdrawal_wallet(p) ==
  /\ At(p, "request_withdrawal", "rw_wallet")
  /\ LET u == proc[p].u IN
       IF ~(u \in DOMAIN wallets /\ wallets[u].exists) THEN Set(p, DoneFor(proc[p], "404"))
       ELSE IF proc[p].amount > wallets[u].withdrawable_money
         THEN Set(p, DoneFor(proc[p], "400"))
       ELSE Set(p, [proc[p] EXCEPT !.pc = "rw_bank"])
  /\ UNCHANGED <<now, wallets, tx, calls, status, badges, user_roles, listener_profile, redis, budget, billed, published, manager, listener_payout>>

\* bank_details = SELECT payout_account FROM listener_payout WHERE user_id = $1;
\* 400 if there is no row or no payout_account
request_withdrawal_bank(p) ==
  /\ At(p, "request_withdrawal", "rw_bank")
  /\ IF listener_payout[proc[p].u] = NULL THEN Set(p, DoneFor(proc[p], "400"))
     ELSE Set(p, [proc[p] EXCEPT !.pc = "rw_insert"])
  /\ UNCHANGED <<now, wallets, tx, calls, status, badges, user_roles, listener_profile, redis, budget, billed, published, manager, listener_payout>>

\* INSERT INTO user_transactions (wallet_id, tx_type, money_change, created_at) VALUES
\* ($1, 'withdraw', -$2, now()) RETURNING transaction_id, created_at (coins_change is
\* not written); return WithdrawalResponse(transaction_id=, amount=, message=,
\* created_at=).  user_wallets is not written.
request_withdrawal_insert(p) ==
  /\ At(p, "request_withdrawal", "rw_insert")
  /\ \E accepted \in NegatedParameterAccepted :
       IF accepted
         THEN /\ tx' = tx (+) SetToBag({[wallet |-> proc[p].u, tx_type |-> "withdraw",
                                         coins_change |-> NULL,
                                         money_change |-> 0 - proc[p].amount]})
              /\ Set(p, DoneFor(proc[p],
                   IF Validates(WithdrawalResponseRequired,
                                {"transaction_id", "amount", "message", "created_at"})
                     THEN "200" ELSE "500"))
         ELSE /\ tx' = tx
              /\ Set(p, DoneFor(proc[p], "500"))
  /\ UNCHANGED <<now, wallets, calls, status, badges, user_roles, listener_profile, redis, budget, billed, published, manager, listener_payout>>

\* ---------------------------------------------------------------- presence
\* asyncpg takes a timestamp parameter as a datetime: the string "now()" that
\* update_my_status passes for last_seen and updated_at is rejected with DataError
timestamp_parameter(value) == IF value = "now()" THEN "DataError" ELSE "none"

\* PUT /users/me/status: UPDATE user_status SET is_online = $2, is_busy = $3,
\* last_seen = $4, updated_at = $5 WHERE user_id = $1 RETURNING *, with "now()" as
\* $4 and $5; then the row is read back and broadcast
update_my_status(p, u, is_online, is_busy) ==
  /\ Free(p)
  /\ budget.status_requests > 0
  /\ budget' = [budget EXCEPT !.status_requests = @ - 1]
  /\ LET r == [Idle EXCEPT !.op = "update_my_status", !.u = u] IN
       IF timestamp_parameter("now()") = "DataError"
         THEN /\ status' = status
              /\ published' = published
              /\ Set(p, Done(r, "500"))
         ELSE /\ status' = [status EXCEPT ![u] = [@ EXCEPT !.is_online = is_online,
                                                          !.is_busy = is_busy,
                                                          !.last_seen = now]]
              /\ published' = broadcast_user_status_update(u, status')
              /\ Set(p, Done(r, "200"))
  /\ UNCHANGED <<now, wallets, tx, calls, badges, user_roles, listener_profile, redis, billed, manager, listener_payout>>

\* POST /users/me/heartbeat: UPDATE user_status SET last_seen = now() WHERE user_id = $1
heartbeat(p, u) ==
  /\ Free(p)
  /\ budget.status_requests > 0
  /\ budget' = [budget EXCEPT !.status_requests = @ - 1]
  /\ status' = [status EXCEPT ![u] = [@ EXCEPT !.last_seen = now]]
  /\ Set(p, [Idle EXCEPT !.op = "heartbeat", !.u = u, !.pc = "hb_broadcast"])
  /\ UNCHANGED <<now, wallets, tx, calls, badges, user_roles, listener_profile, redis, billed, published, manager, listener_payout>>

\* status_data = await get_user_status_for_broadcast(user_id); broadcast; return
heartbeat_broadcast(p) ==
  /\ At(p, "heartbeat", "hb_broadcast")
  /\ published' = broadcast_user_status_update(proc[p].u, status)
  /\ Set(p, Done(proc[p], "200"))
  /\ UNCHANGED <<now, wallets, tx, calls, status, badges, user_roles, listener_profile, redis, budget, billed, manager, listener_payout>>

\* POST /auth/logout: the tokens are revoked, then UPDATE user_status SET
\* is_online = FALSE, last_seen = now() WHERE user_id = $1; return
logout(p, u) ==
  /\ Free(p)
  /\ budget.status_requests > 0
  /\ budget' = [budget EXCEPT !.status_requests = @ - 1]
  /\ status' = [status EXCEPT ![u] = [@ EXCEPT !.is_online = FALSE, !.last_seen = now]]
  /\ Set(p, Done([Idle EXCEPT !.op = "logout", !.u = u], "200"))
  /\ UNCHANGED <<now, wallets, tx, calls, badges, user_roles, listener_profile, redis, billed, published, manager, listener_payout>>

\* POST /auth/verify of a registered phone: UPDATE user_status SET is_online = TRUE,
\* last_seen = now() WHERE user_id = $1; the tokens are issued and returned
verify_otp(p, u) ==
  /\ Free(p)
  /\ budget.status_requests > 0
  /\ budget' = [budget EXCEPT !.status_requests = @ - 1]
  /\ status' = [status EXCEPT ![u] = [@ EXCEPT !.is_online = TRUE, !.last_seen = now]]
  /\ Set(p, Done([Idle EXCEPT !.op = "verify_otp", !.u = u], "200"))
  /\ UNCHANGED <<now, wallets, tx, calls, badges, user_roles, listener_profile, redis, billed, published, manager, listener_payout>>

\* presence_cleanup.py: mark_inactive_users_offline(inactive_minutes=5)
inactive_minutes == 5

\* a sweep with cutoff_time = utcnow() (not the job's)
mark_offline_cutoff_now(rows, clock) ==
  [u \in DOMAIN rows |->
     IF rows[u].is_online /\ rows[u].last_seen < clock
       THEN [rows[u] EXCEPT !.is_online = FALSE] ELSE rows[u]]

\* cutoff_time = utcnow() - timedelta(minutes=inactive_minutes); UPDATE user_status
\* SET is_online = FALSE WHERE is_online = TRUE AND last_seen < cutoff_time
mark_offline(rows, clock) ==
  [u \in DOMAIN rows |->
     IF rows[u].is_online /\ rows[u].last_seen < clock - inactive_minutes
       THEN [rows[u] EXCEPT !.is_online = FALSE] ELSE rows[u]]

mark_inactive_users_offline(p) ==
  /\ Free(p)
  /\ budget.presence_cleanup > 0
  /\ budget' = [budget EXCEPT !.presence_cleanup = @ - 1]
  /\ status' = mark_offline(status, now)
  /\ Set(p, [Idle EXCEPT !.op = "presence_cleanup", !.pc = "pc_busy"])
  /\ UNCHANGED <<now, wallets, tx, calls, badges, user_roles, listener_profile, redis, billed, published, manager, listener_payout>>

\* UPDATE user_status SET is_busy = FALSE, wait_time = NULL WHERE is_busy = TRUE AND
\* wait_time IS NOT NULL AND wait_time <= 0; main returns 0
cleanup_expired_busy_status(p) ==
  /\ At(p, "presence_cleanup", "pc_busy")
  /\ status' = [u \in DOMAIN status |->
       IF status[u].is_busy /\ status[u].wait_time # NULL /\ status[u].wait_time <= 0
         THEN [status[u] EXCEPT !.is_busy = FALSE, !.wait_time = NULL] ELSE status[u]]
  /\ Set(p, Done(proc[p], "ok"))
  /\ UNCHANGED <<now, wallets, tx, calls, badges, user_roles, listener_profile, redis, budget, billed, published, manager, listener_payout>>

\* midnight: date.today() changes
NextDay ==
  /\ budget.days > 0
  /\ budget' = [budget EXCEPT !.days = @ - 1]
  /\ now' = (Today + 1) * MinutesPerDay
  /\ UNCHANGED <<wallets, tx, calls, status, badges, user_roles, listener_profile, redis, proc, billed, published, manager, listener_payout>>

\* ------------------------------------------------------------------ clock
\* a statement that reads the clock is the next one of some coroutine
ClockRead ==
  \/ \E p \in Procs : proc[p].pc = "sc_insert"
  \/ \E p \in Procs : proc[p].pc = "presence" /\ (proc[p].pa = 1 \/ proc[p].pb = 1)
  \/ \E p \in Procs : Free(p)

\* The clock advances.  Only durations of calls are observed, so it advances
\* while a call is ongoing; and a statement that does not read the clock
\* commutes with the advance, so it advances right before one that does.
Advance ==
  /\ budget.minutes > 0
  /\ budget' = [budget EXCEPT !.minutes = @ - 1]
  /\ \E i \in 1..Len(calls) : calls[i].status = "ongoing"
  /\ ClockRead
  /\ now' = now + 1
  /\ UNCHANGED <<wallets, tx, calls, status, badges, user_roles, listener_profile, redis, proc, billed, published, manager, listener_payout>>

\* the response of a finished request has been sent
Return(p) ==
  /\ proc[p].pc = "done"
  /\ Set(p, Idle)
  /\ UNCHANGED <<now, wallets, tx, calls, status, badges, user_roles, listener_profile, redis, budget, billed, published, manager, listener_payout>>

\* steps of update_user_coin_balance and update_both_users_presence
Primitives ==
  \/ \E p \in Procs : update_user_coin_balance_check(p)
  \/ \E p \in Procs : update_user_coin_balance_update(p)
  \/ \E p \in Procs : update_user_coin_balance_tx(p)
  \/ \E p \in Procs, k \in {"a", "b"} : set_user_busy_status_update(p, k)
  \/ \E p \in Procs, k \in {"a", "b"} : set_user_busy_status_online(p, k)

Credit ==
  \/ \E p \in Procs : update_user_coin_balance_add_update(p)
  \/ \E p \in Procs : update_user_coin_balance_add_tx(p)

StartCallSteps ==
  \/ \E p \in Procs : start_call_avail_listener(p)
  \/ \E p \in Procs : start_call_avail_caller(p)
  \/ \E p \in Procs : start_call_balance(p)
  \/ \E p \in Procs : start_call_insert(p)
  \/ \E p \in Procs : start_call_hset(p)
  \/ \E p \in Procs : start_call_expire(p)

EndCallSteps ==
  \/ \E p \in Procs : end_call_balance(p)
  \/ \E p \in Procs : end_call_drop_update(p)
  \/ \E p \in Procs : end_call_update(p)
  \/ \E p \in Procs : end_call_delete(p)

\* start_call and end_call requests of customer 1 (10 coins), concurrently
Next ==
  \/ Advance
  \/ \E p \in Procs : Return(p)
  \/ Primitives
  \/ Credit
  \/ \E p \in Procs, l \in Listeners \cup {UnknownUser}, ct \in CallTypes :
       start_call(p, 1, l, ct)
  \/ StartCallSteps
  \/ \E p \in Procs, cid \in 1..MaxCalls : end_call(p, 1, cid, "None")
  \/ EndCallSteps

Spec == Init /\ [][Next]_vars

\* one call of customer 2 (25 coins), ended by either party, and a top-up, concurrently
InitWallet == InitWith(1, MaxTopUps, 0)

NextWallet ==
  \/ Advance
  \/ \E p \in Procs : Return(p)
  \/ Primitives
  \/ Credit
  \/ \E p \in Procs, l \in Listeners : start_call(p, 2, l, "audio")
  \/ StartCallSteps
  \/ \E p \in Procs, u \in {2} \cup Listeners, reason \in {"None", "dropped"} :
       end_call(p, u, 1, reason)
  \/ EndCallSteps
  \/ \E p \in Procs, coins \in AddCoins : add_coin_to_wallet(p, 2, coins)
  \/ \E p \in Procs : add_coin_to_wallet_update(p)
  \/ \E p \in Procs : add_coin_to_wallet_tx(p)

SpecWallet == InitWallet /\ [][NextWallet]_vars

\* one start_call and the background jobs, concurrently
InitJobs == InitWith(1, 0, MaxSweeps)

NextJobs ==
  \/ Advance
  \/ \E p \in Procs : Return(p)
  \/ Primitives
  \/ \E p \in Procs, u \in Customers, l \in Listeners, ct \in CallTypes : start_call(p, u, l, ct)
  \/ StartCallSteps
  \/ \E p \in Procs : cleanup_expired_calls(p)
  \/ \E p \in Procs : deduct_per_minute_coins(p)
  \/ \E p \in Procs : process_call_coin_deduction(p)

SpecJobs == InitJobs /\ [][NextJobs]_vars
\* two calls of customer 2 (25 coins), each ended by the customer, concurrently
NextPresence ==
  \/ Advance
  \/ \E p \in Procs : Return(p)
  \/ Primitives
  \/ Credit
  \/ \E p \in Procs, l \in Listeners : start_call(p, 2, l, "audio")
  \/ StartCallSteps
  \/ \E p \in Procs, cid \in 1..MaxCalls : end_call(p, 2, cid, "None")
  \/ EndCallSteps

SpecPresence == Init /\ [][NextPresence]_vars

\* one call of customer 2, ended by the customer with any reason, concurrently
InitReasons == InitWith(1, 0, 0)

NextReasons ==
  \/ Advance
  \/ \E p \in Procs : Return(p)
  \/ Primitives
  \/ Credit
  \/ \E p \in Procs, l \in Listeners : start_call(p, 2, l, "audio")
  \/ StartCallSteps
  \/ \E p \in Procs, reason \in Reasons : end_call(p, 2, 1, reason)
  \/ EndCallSteps

SpecReasons == InitReasons /\ [][NextReasons]_vars

\* a listener account buys coins and starts a call with a customer account
InitRoles == InitWith(1, MaxTopUps, 0)

NextRoles ==
  \/ Advance
  \/ \E p \in Procs : Return(p)
  \/ Primitives
  \/ \E p \in Procs, u \in Listeners, coins \in AddCoins : add_coin_to_wallet(p, u, coins)
  \/ \E p \in Procs : add_coin_to_wallet_update(p)
  \/ \E p \in Procs : add_coin_to_wallet_tx(p)
  \/ \E p \in Procs, u \in Listeners, l \in Customers : start_call(p, u, l, "audio")
  \/ StartCallSteps

SpecRoles == InitRoles /\ [][NextRoles]_vars

\* One call of a customer who can pay for it, of either kind and of up to
\* MaxCallMinutes minutes, with a listener of any badge; one request at a time.
BadgeTiers == {"basic", "bronze", "silver", "gold"}
AllIdle == \A p \in Procs : proc[p].pc = "idle"

InitEarn ==
  \E row \in {NoBadge} \cup {BadgeRow(0, badge) : badge \in BadgeTiers} :
    InitTables((1 :> 0) @@ (2 :> RichCoins), [l \in Listeners |-> row], <<>>, 0,
               Admit(1, 0, 0, MaxCallMinutes))

NextEarn ==
  \/ Advance
  \/ \E p \in Procs : Return(p)
  \/ Primitives
  \/ Credit
  \/ AllIdle /\ \E p \in Procs, l \in Listeners, ct \in CallTypes : start_call(p, 2, l, ct)
  \/ StartCallSteps
  \/ AllIdle /\ \E p \in Procs : end_call(p, 2, 1, "None")
  \/ \E p \in Procs : end_call_balance(p)
  \/ \E p \in Procs : end_call_update(p)
  \/ \E p \in Procs : end_call_delete(p)

SpecEarn == InitEarn /\ [][NextEarn]_vars

\* a new account registers, is verified and asks for its badge, today or tomorrow
InitRegister ==
  InitTables(InitCoins, [l \in Listeners |-> NoBadge], <<>>, 0,
             [Admit(0, 0, 0, 0) EXCEPT !.register = 1, !.verify = 1, !.badge_reads = 2,
                                       !.days = 1])

NextRegister ==
  \/ NextDay
  \/ \E p \in Procs : Return(p)
  \/ \E p \in Procs, u \in NewUsers, role \in Roles : register_user(p, u, role)
  \/ \E p \in Procs : register_user_badge(p)
  \/ \E p \in Procs : register_user_profile(p)
  \/ \E p \in Procs : register_user_status(p)
  \/ \E l \in NewUsers \cup Listeners : websocket_verification(l)
  \/ \E p \in Procs, u \in NewUsers \cup Users : get_current_badge(p, u)
  \/ \E p \in Procs : get_current_badge_read(p)
  \/ \E p \in Procs : get_current_badge_assign(p)

SpecRegister == InitRegister /\ [][NextRegister]_vars

\* The daily badge assignment, on the day after and two days after a history of
\* two settled calls of the listener, of any length, status and day.
HistoryMinutes == {1, 179, 180, 360, 539, 540}

HistoryRow(day, minutes, final_status) ==
  [status |-> final_status, call_type |-> "audio",
   coins_spent |-> minutes * rate_per_minute("audio"), user_id |-> 1, listener_id |-> 3,
   start_time |-> day * MinutesPerDay, end_time |-> day * MinutesPerDay + minutes,
   duration_minutes |-> minutes, listener_money_earned |-> minutes]

HistoryRows ==
  {HistoryRow(day, minutes, final_status) :
     day \in {0, 1}, minutes \in HistoryMinutes, final_status \in {"completed", "dropped"}}

InitBadge ==
  \E r1 \in HistoryRows, r2 \in HistoryRows :
    InitTables(InitCoins, [l \in Listeners |-> NoBadge], <<r1, r2>>, MinutesPerDay,
               [Admit(0, 0, 0, 0) EXCEPT !.badge_sweeps = 2, !.days = 1])

NextBadge ==
  \/ NextDay
  \/ \E p \in Procs : Return(p)
  \/ \E p \in Procs : assign_badges_for_all_listeners(p)
  \/ \E p \in Procs : assign_badge_for_date_duration(p)
  \/ \E p \in Procs : assign_badge_for_date_insert(p)

SpecBadge == InitBadge /\ [][NextBadge]_vars

\* The daily badge assignment and GET /listener/badge/current of the listener on the
\* same day, after a history of two settled calls.
InitSeed ==
  \E r1 \in HistoryRows, r2 \in HistoryRows :
    InitTables(InitCoins, [l \in Listeners |-> NoBadge], <<r1, r2>>, MinutesPerDay,
               [Admit(0, 0, 0, 0) EXCEPT !.badge_sweeps = 2, !.badge_reads = 1])

NextSeed ==
  \/ \E p \in Procs : Return(p)
  \/ \E p \in Procs : assign_badges_for_all_listeners(p)
  \/ \E p \in Procs : assign_badge_for_date_duration(p)
  \/ \E p \in Procs : assign_badge_for_date_insert(p)
  \/ \E p \in Procs, u \in Listeners : get_current_badge(p, u)
  \/ \E p \in Procs : get_current_badge_read(p)
  \/ \E p \in Procs : get_current_badge_assign(p)

SpecSeed == InitSeed /\ [][NextSeed]_vars

\* Withdrawal requests of the listener and of a customer.  No statement of the code
\* writes a withdrawable_money other than the 0.00 of registration, and
\* update_bank_details reads an attribute its request model does not have, so the
\* listener's withdrawable money and payout account are rows provisioned by the operator.
ProvisionedMoney == 5

InitWithdraw ==
  \E account \in {NULL, 1} :
    /\ now = 0
    /\ wallets = [u \in Users |->
         [exists |-> TRUE, balance_coins |-> IF u \in Customers THEN InitCoins[u] ELSE 0,
          withdrawable_money |-> IF u \in Listeners THEN ProvisionedMoney ELSE 0]]
    /\ tx = SetToBag({[wallet |-> u, tx_type |-> "purchase", coins_change |-> InitCoins[u]] :
                      u \in Customers})
    /\ calls = <<>>
    /\ status = [u \in Users |-> [is_online |-> TRUE, is_busy |-> FALSE, wait_time |-> NULL, last_seen |-> 0]]
    /\ badges = [l \in Listeners |-> NoBadge]
    /\ user_roles = [u \in Users |-> IF u \in Customers THEN "customer" ELSE "listener"]
    /\ listener_profile = [l \in Listeners |-> [verification_status |-> TRUE]]
    /\ redis = [i \in 1..MaxCalls |-> Absent]
    /\ proc = [p \in Procs |-> Idle]
    /\ budget = [Admit(0, 0, 0, 0) EXCEPT !.withdrawals = 3]
    /\ billed = [i \in 1..MaxCalls |-> 0]
    /\ published = [u \in Users |-> [is_online |-> TRUE, is_busy |-> FALSE]]
    /\ manager = NoConnections
    /\ listener_payout = [u \in Users |-> IF u \in Listeners THEN account ELSE NULL]

NextWithdraw ==
  \/ \E p \in Procs : Return(p)
  \/ \E p \in Procs, u \in {1} \cup Listeners, amount \in WithdrawalAmounts :
       request_withdrawal(p, u, amount)
  \/ \E p \in Procs : request_withdrawal_wallet(p)
  \/ \E p \in Procs : request_withdrawal_bank(p)
  \/ \E p \in Procs : request_withdrawal_insert(p)

SpecWithdraw == InitWithdraw /\ [][NextWithdraw]_vars

\* one start_call and the background jobs, the reaper run again and again for ever;
\* every coroutine that can take a step eventually takes it
NextLive ==
  \/ NextJobs
  \/ call_cleanup_schedule

Fairness ==
  /\ WF_vars(call_cleanup_schedule)
  /\ WF_vars(\E p \in Procs : cleanup_expired_calls(p))
  /\ WF_vars(\E p \in Procs : process_call_coin_deduction(p))
  /\ WF_vars(\E p \in Procs : Return(p))
  /\ WF_vars(Primitives)
  /\ WF_vars(StartCallSteps)

SpecLive == InitJobs /\ [][NextLive]_vars /\ Fairness

\* both customers start a call, racing for the listener, and the billing job runs
InitSweep == InitTables(InitCoins, [l \in Listeners |-> NoBadge], <<>>, 0,
                        Admit(MaxCalls, 0, MaxSweeps, 0))

NextSweep ==
  \/ \E p \in Procs : Return(p)
  \/ Primitives
  \/ \E p \in Procs, u \in Customers, l \in Listeners : start_call(p, u, l, "audio")
  \/ StartCallSteps
  \/ \E p \in Procs : deduct_per_minute_coins(p)
  \/ \E p \in Procs : process_call_coin_deduction(p)

SpecSweep == InitSweep /\ [][NextSweep]_vars

\* one call of customer 2 with the listener, heartbeats, status updates, logins and
\* logouts of the three accounts, and the presence cleanup, over seven minutes
InitStatus ==
  InitTables(InitCoins, [l \in Listeners |-> NoBadge], <<>>, 0,
             [Admit(1, 0, 0, inactive_minutes + 2) EXCEPT !.status_requests = 1,
                                                          !.presence_cleanup = 1])

NextStatus ==
  \/ Advance
  \/ \E p \in Procs : Return(p)
  \/ Primitives
  \/ \E p \in Procs, l \in Listeners : start_call(p, 2, l, "audio")
  \/ StartCallSteps
  \/ \E p \in Procs, u \in Users, is_online \in BOOLEAN, is_busy \in BOOLEAN :
       update_my_status(p, u, is_online, is_busy)
  \/ \E p \in Procs, u \in Users : heartbeat(p, u)
  \/ \E p \in Procs : heartbeat_broadcast(p)
  \/ \E p \in Procs, u \in Users : logout(p, u)
  \/ \E p \in Procs, u \in Users : verify_otp(p, u)
  \/ \E p \in Procs : mark_inactive_users_offline(p)
  \/ \E p \in Procs : cleanup_expired_busy_status(p)

SpecStatus == InitStatus /\ [][NextStatus]_vars

\* the registry with any of the three websockets connected, any of them with its
\* peer gone; two broadcasts, and one connect or disconnect
Registered(S, open) ==
  [all_connections |-> S,
   active_connections |-> [u \in {ConnectionUser(c) : c \in S} |->
                             {c \in S : ConnectionUser(c) = u}],
   open |-> open]

InitFeed ==
  \E S \in SUBSET Connections : \E open \in SUBSET S :
    /\ manager = Registered(S, open)
    /\ listener_payout = [u \in Users |-> NULL]
    /\ now = 0
    /\ wallets = [u \in Users |-> [exists |-> TRUE, balance_coins |-> 0, withdrawable_money |-> 0]]
    /\ tx = EmptyBag
    /\ calls = <<>>
    /\ status = [u \in Users |-> [is_online |-> TRUE, is_busy |-> FALSE, wait_time |-> NULL, last_seen |-> 0]]
    /\ badges = [l \in Listeners |-> NoBadge]
    /\ user_roles = [u \in Users |-> IF u \in Customers THEN "customer" ELSE "listener"]
    /\ listener_profile = [l \in Listeners |-> [verification_status |-> TRUE]]
    /\ redis = [i \in 1..MaxCalls |-> Absent]
    /\ proc = [p \in Procs |-> Idle]
    /\ budget = [Admit(0, 0, 0, 0) EXCEPT !.broadcasts = 2, !.sockets = 1]
    /\ billed = [i \in 1..MaxCalls |-> 0]
    /\ published = [u \in Users |-> [is_online |-> TRUE, is_busy |-> FALSE]]

NextFeed ==
  \/ \E p \in Procs : Return(p)
  \/ \E c \in Connections : connect(c)
  \/ \E c \in Connections : websocket_disconnect(c)
  \/ \E p \in Procs : broadcast_to_feed(p)
  \/ \E p \in Procs : broadcast_to_feed_send(p)

SpecFeed == InitFeed /\ [][NextFeed]_vars

\* ================================================================ claims
Terminal == {"completed", "dropped"}
Quiescent == \A p \in Procs : proc[p].pc \in {"idle", "done"}

\* the ledger entries of wallet u with a tx_type in types
Entries(u, types) == {e \in BagToSet(tx) : e.wallet = u /\ e.tx_type \in types}

RECURSIVE SumEntries(_)
SumEntries(S) ==
  IF S = {} THEN 0
  ELSE LET e == CHOOSE x \in S : TRUE IN CopiesIn(e, tx) * e.coins_change + SumEntries(S \ {e})

RECURSIVE CountEntries(_)
CountEntries(S) ==
  IF S = {} THEN 0
  ELSE LET e == CHOOSE x \in S : TRUE IN CopiesIn(e, tx) + CountEntries(S \ {e})

TxTypes == {"purchase", "spend", "earn"}
LedgerSum(u) == SumEntries(Entries(u, TxTypes))
CoinsSpent(u) == 0 - SumEntries(Entries(u, {"spend"}))
OngoingWith(u) ==
  {i \in 1..Len(calls) : calls[i].status = "ongoing"
                         /\ (calls[i].user_id = u \/ calls[i].listener_id = u)}

\* C1: no wallet's balance_coins is ever negative, under any interleaving of the
\* operations that debit and credit it.
C1_BalanceNeverNegative == \A u \in Users : wallets[u].balance_coins >= 0

\* C2: however terminations of a session race, the listener is credited at most
\* once per session that has left ongoing: the listener's wallet never holds more
\* earn entries than there are terminated sessions of that listener.
C2_OneCreditPerSession ==
  \A l \in Listeners :
    CountEntries(Entries(l, {"earn"})) <=
      Cardinality({i \in 1..Len(calls) : calls[i].listener_id = l /\ calls[i].status \in Terminal})

\* C3: completed and dropped are absorbing: no step changes the row of a session
\* (status, coins_spent, listener_money_earned, end_time) that is in a terminal status.
C3_TerminalAbsorbing ==
  [][\A i \in 1..Len(calls) : calls[i].status \in Terminal => calls'[i] = calls[i]]_vars

\* C4: after N billing ticks on a session that is still ongoing, each with the
\* balance to pay for its minute, the session's coins_spent is the initial minute
\* plus N x rate, and the customer's wallet has been debited as much.
C4_TicksChargeOncePerTick ==
  \A i \in 1..Len(calls) :
    LET u == calls[i].user_id
        rate == rate_per_minute(calls[i].call_type)
        paid == (billed[i] + 1) * rate IN
      (/\ calls[i].status = "ongoing"
       /\ InitCoins[u] >= paid
       /\ \A p \in Procs : proc[p].op # "deduct_per_minute_coins" \/ proc[p].pc = "done")
      => /\ calls[i].coins_spent = paid
         /\ wallets[u].balance_coins = InitCoins[u] - paid

\* C5: a settled session's listener_money_earned is never more than the listener's
\* rate times the minutes that the customer's debits have paid for.
C5_EarnedOnlyForPaidMinutes ==
  \A i \in 1..Len(calls) :
    calls[i].status \in Terminal =>
      calls[i].listener_money_earned <=
        listener_earnings(get_listener_earning_rate(calls[i].listener_id, calls[i].call_type),
                          CoinsSpent(calls[i].user_id) \div rate_per_minute(calls[i].call_type))

\* C6: every account is a party to at most one ongoing session, also after two
\* start_call requests with a common account have interleaved.
C6_OneOngoingSessionPerAccount == \A u \in Users : Cardinality(OngoingWith(u)) <= 1

\* C7: the customer with 25 coins starts an audio call at 10 coins a minute; once
\* two billing ticks have run on the session it is dropped with coins_spent = 20
\* and the customer's balance is 5.
C7_Scenario ==
  \A i \in 1..Len(calls) :
    (/\ calls[i].user_id = 2 /\ calls[i].call_type = "audio"
     /\ billed[i] = 2
     /\ \A p \in Procs : proc[p].op # "deduct_per_minute_coins" \/ proc[p].pc = "done")
    => /\ calls[i].status = "dropped"
       /\ calls[i].coins_spent = 20
       /\ wallets[2].balance_coins = 5

\* C8: a start_call that returns an error has left no session row behind (and a
\* start_call that created its session row returns success).
C8_StartCallAllOrNothing ==
  \A p \in Procs :
    (proc[p].op = "start_call" /\ proc[p].pc = "done" /\ proc[p].res # "200")
    => proc[p].cid = 0

\* C9: when update_both_users_presence(a, b, busy, wait_time) returns, the busy
\* flags of a and b both equal busy.
C9_BothBusyFlagsSet ==
  [][\A p \in Procs :
       (proc[p].pc = "presence" /\ proc'[p].pc # "presence")
       => /\ status'[proc[p].cu].is_busy = proc[p].busy
          /\ status'[proc[p].l].is_busy = proc[p].busy]_vars

\* C10: whenever no operation is in flight, every wallet's balance_coins equals the
\* sum of coins_change over the wallet's ledger entries.
C10_BalanceIsLedgerSum ==
  Quiescent => \A u \in Users : wallets[u].balance_coins = LedgerSum(u)

\* C11: once a session is settled and no operation is in flight, the coins_spent
\* stored on it equals the coins debited from its customer's wallet for it (the
\* customer of this specification has one session, so every spend entry is its).
C11_CoinsSpentIsDebited ==
  Quiescent =>
    \A i \in 1..Len(calls) :
      calls[i].status \in Terminal => calls[i].coins_spent = CoinsSpent(calls[i].user_id)

\* C12: a session's stored status is always ongoing, completed or dropped, and an
\* end_call that got past its checks, whatever reason it was given, has left the
\* session completed or dropped.
C12_StatusFollowsReason ==
  /\ \A i \in 1..Len(calls) : calls[i].status \in CallStatus
  /\ \A p \in Procs :
       (proc[p].op = "end_call" /\ proc[p].pc = "done" /\ proc[p].res \notin {"404", "400"})
       => calls[proc[p].cid].status \in Terminal

\* C13: the caller of every session holds the customer role and the callee is a
\* verified listener: a start_call by any other account creates no session.
C13_OnlyCustomersStartCalls ==
  \A i \in 1..Len(calls) :
    /\ user_roles[calls[i].user_id] = "customer"
    /\ user_roles[calls[i].listener_id] = "listener"
    /\ listener_profile[calls[i].listener_id].verification_status

\* today's earning rate of listener l for call kind ct, read off the badge table
\* (hundredths of a rupee per minute)
RateToday(l, ct) ==
  IF badges[l].date = Today THEN BADGE_RATES(badges[l].badge, ct) ELSE BADGE_RATES("basic", ct)

C15_CurrentBadgeIsATier ==
  \A p \in Procs :
    (proc[p].op = "get_current_badge" /\ proc[p].pc = "done"
     /\ proc[p].u \in DOMAIN user_roles /\ user_roles[proc[p].u] = "listener")
    => proc[p].res \in BadgeTiers

\* the minutes of the calls of listener l that started on day d with a status in statuses
RECURSIVE MinutesOn(_, _, _, _)
MinutesOn(l, d, statuses, S) ==
  IF S = {} THEN 0
  ELSE LET i == CHOOSE x \in S : TRUE IN
         (IF calls[i].listener_id = l /\ DateOf(calls[i].start_time) = d
             /\ calls[i].status \in statuses
            THEN calls[i].duration_minutes ELSE 0)
         + MinutesOn(l, d, statuses, S \ {i})

\* C16: the badge row the daily assignment stores for day D holds the tier of the
\* listener's completed-call minutes of day D-1 (basic below 180, bronze from 180,
\* silver from 360, gold from 540) and that tier's audio and video rates; dropped
\* calls and calls of other days do not count.
C16_BadgeFromCompletedMinutes ==
  \A l \in DOMAIN badges :
    badges[l].date # NULL =>
      LET m == MinutesOn(l, badges[l].date - 1, {"completed"}, DOMAIN calls)
          tier == IF m >= 540 THEN "gold" ELSE IF m >= 360 THEN "silver"
                  ELSE IF m >= 180 THEN "bronze" ELSE "basic" IN
        /\ badges[l].badge = tier
        /\ badges[l].audio_rate_per_minute = BADGE_RATES(tier, "audio")
        /\ badges[l].video_rate_per_minute = BADGE_RATES(tier, "video")

\* C16 witness: a tier above basic was assigned for today although the listener also
\* has a dropped call of yesterday and a call of another day
C16_AssignedAboveBasic ==
  \E l \in DOMAIN badges :
    /\ badges[l].date = Today /\ badges[l].badge # "basic"
    /\ \E i \in DOMAIN calls : calls[i].listener_id = l /\ calls[i].status = "dropped"
                               /\ DateOf(calls[i].start_time) = Today - 1

\* C17: a top-up and the start charge of a call of the same customer, run
\* concurrently, leave the wallet at the initial balance plus the top-up minus the
\* charge: once both have finished and the call is still ongoing, customer 2 holds
\* InitCoins[2] + 10 - the call's coins_spent.
C17_CreditAndDebitBothApplied ==
  (/\ Quiescent
   /\ Len(calls) = 1 /\ calls[1].status = "ongoing" /\ calls[1].user_id = 2
   /\ budget.add_coin = 0)
    => wallets[2].balance_coins = InitCoins[2] + 10 - calls[1].coins_spent

MaxAffordable(i) == InitCoins[calls[i].user_id] \div rate_per_minute(calls[i].call_type)
Expired(i) == calls[i].status = "ongoing" /\ now > calls[i].start_time + MaxAffordable(i)

\* the row end_call with reason dropped stores for session i when it is called now
EndCallDropped(i) ==
  LET call == calls[i]
      duration_minutes == Max(1, now - call.start_time)
      total_cost == duration_minutes * rate_per_minute(call.call_type) IN
    EndCallRow(call, [endt |-> now, dur |-> duration_minutes, tot |-> total_cost],
               listener_earnings(get_listener_earning_rate(call.listener_id, call.call_type),
                                 duration_minutes),
               "dropped")

\* this step is a run of the expired-call reaper by p
ReaperRuns(p) == proc[p].pc = "idle" /\ proc'[p].op = "cleanup_expired_calls"

\* this step is the billing tick of p reaching session i with less than one minute's
\* rate in the customer's wallet
TickSettles(p, i) ==
  /\ At(p, "deduct_per_minute_coins", "dp_process")
  /\ Head(proc[p].todo)[1] = i
  /\ get_user_coin_balance(calls[i].user_id) < rate_per_minute(calls[i].call_type)
  /\ proc'[p] # proc[p]

\* C19: there is one settlement algorithm: a run of the reaper over an expired
\* session, and the billing tick's forced settlement of a session whose customer
\* cannot pay the next minute, leave the session's row (status, coins_spent,
\* listener_money_earned, end time) as end_call with reason dropped would leave it
\* for the same session state at the same time.
C19_OneSettlementAlgorithm ==
  [][\A p \in Procs, i \in 1..Len(calls) :
       (/\ calls[i].status = "ongoing"
        /\ (ReaperRuns(p) /\ Expired(i)) \/ TickSettles(p, i))
         => calls'[i] = EndCallDropped(i)]_vars

\* C20: a session that is still ongoing after its expiry (start time plus the
\* minutes affordable at the start) is eventually dropped, the reaper running again
\* and again.
C20_ExpiredEventuallyDropped ==
  \A i \in 1..MaxCalls :
    [](i \in 1..Len(calls) /\ Expired(i)
         => <>(i \in 1..Len(calls) /\ calls[i].status = "dropped"))

\* C21: in a billing sweep a failure on one session does not end the sweep: the
\* step that processes a session leaves the rest of the scan to be processed, and
\* it changes the session's coins_spent by exactly what it debits from the
\* customer's wallet.
C21_FailureDoesNotAbortSweep ==
  [][\A p \in Procs :
       (At(p, "deduct_per_minute_coins", "dp_process") /\ proc'[p] # proc[p]) =>
         LET i == Head(proc[p].todo)[1]
             u == calls[i].user_id
             others == Tail(proc[p].todo) IN
           /\ others # <<>> => (proc'[p].pc = "dp_process" /\ proc'[p].todo = others)
           /\ calls'[i].coins_spent - calls[i].coins_spent
                = wallets[u].balance_coins - wallets'[u].balance_coins]_vars

\* C21 witness: a sweep over two ongoing sessions has failed on the first and is
\* about to process the second
C21_SweepReachesSecondSession ==
  \E p \in Procs :
    /\ At(p, "deduct_per_minute_coins", "dp_process")
    /\ Len(calls) = 2 /\ Head(proc[p].todo)[1] = 2
    /\ billed[1] >= 1

\* C22: every change of an account's online or busy flag is followed by a published
\* event carrying the new state: once no operation is in flight, the last
\* user_status_update message of each account carries its current flags.
C22_ChangesArePublished ==
  Quiescent =>
    \A u \in DOMAIN published :
      /\ published[u].is_online = status[u].is_online
      /\ published[u].is_busy = status[u].is_busy

\* C23: a broadcast does not fail, and when it has ended every connection whose
\* send failed is out of all_connections and of active_connections, and every
\* connection that is registered with its peer there has been sent the message
\* unless it connected after the broadcast began.
C23_BroadcastToleratesDeadConnections ==
  \A p \in Procs :
    (proc[p].op = "broadcast_to_feed" /\ proc[p].pc = "done") =>
      /\ proc[p].res = "ok"
      /\ proc[p].dead \cap manager.all_connections = {}
      /\ \A u \in DOMAIN manager.active_connections :
           proc[p].dead \cap manager.active_connections[u] = {}
      /\ Cardinality((manager.all_connections \cap manager.open) \ proc[p].sent)
           <= 1 - budget.sockets

\* C24: once the operations on the sessions have completed, every mirror entry
\* call:<id> that exists has an expiry of at most two hours, and no entry exists for
\* a session in a terminal status.
C24_MirrorEntriesExpire ==
  Quiescent =>
    \A i \in 1..MaxCalls :
      redis[i].exists =>
        /\ redis[i].ttl # NULL /\ redis[i].ttl <= 7200
        /\ i \in 1..Len(calls) /\ calls[i].status \notin Terminal

\* C25: every run of the badge assignment for a listener and a date leaves the
\* listener's row for that date holding the tier and the rates that this run computed,
\* whatever row was stored for the date before.
C25_AssignmentKeepsLatestComputation ==
  [][\A p \in Procs :
       assign_badge_for_date_insert(p) =>
         LET l == Head(proc[p].todo) IN
           badges'[l].date = proc[p].st =>
             badges'[l] = BadgeRow(proc[p].st, determine_badge_for_duration(proc[p].dur))]_vars

\* both runs of the assignment for today are over and the listener's row for today
\* holds the gold tier
C25_AssignedTwiceForToday ==
  /\ budget.badge_sweeps = 0
  /\ Quiescent
  /\ badges[3] = BadgeRow(Today, "gold")

\* C29: seeding the basic badge never replaces a tier above basic that is stored for
\* the listener for today, also when the daily assignment wrote it between the
\* request's lookup and its insert.
C29_SeedKeepsHigherTier ==
  [][\A p \in Procs :
       get_current_badge_assign(p) =>
         LET l == proc[p].u IN
           (badges[l].date = Today /\ BADGE_THRESHOLDS(badges[l].badge) > 0) =>
             badges'[l] = badges[l]]_vars

\* C26: after the stale-presence sweep no account last seen more than inactive_minutes
\* ago is online; the sweep leaves every account seen within the threshold as it is
\* and changes nothing but is_online; the busy sweep changes an account only if it is
\* busy with a wait_time that is set and not above zero, and then clears exactly
\* is_busy and wait_time.
C26_SweepMarksOnlyStaleOffline ==
  [][/\ \A p \in Procs :
          mark_inactive_users_offline(p) =>
            \A u \in DOMAIN status :
              /\ status'[u].is_online => status'[u].last_seen >= now - inactive_minutes
              /\ status[u].last_seen >= now - inactive_minutes => status'[u] = status[u]
              /\ status'[u] = [status[u] EXCEPT !.is_online = status'[u].is_online]
     /\ \A p \in Procs :
          cleanup_expired_busy_status(p) =>
            \A u \in DOMAIN status :
              status'[u] # status[u] =>
                /\ status[u].is_busy /\ status[u].wait_time # NULL /\ status[u].wait_time <= 0
                /\ status'[u] = [status[u] EXCEPT !.is_busy = FALSE, !.wait_time = NULL]]_vars

\* the sweep has run, no status request was made: customer 1, last seen more than
\* inactive_minutes ago, is offline, and the listener, seen within the threshold but
\* not in this minute, is still online
C26_StaleOfflineFreshOnline ==
  /\ \E p \in Procs : proc[p].op = "presence_cleanup"
  /\ budget.status_requests = 1
  /\ ~status[1].is_online /\ status[1].last_seen < now - inactive_minutes
  /\ status[3].is_online /\ status[3].last_seen >= now - inactive_minutes
  /\ status[3].last_seen < now

\* C27: the charge of a call concerns only the session's customer: when end_call
\* looks for the coins of the additional cost, it drops the call for insufficient
\* coins only if the customer's balance is below the additional cost, and the wallet
\* it debits is the customer's, whoever sent the request.
C27_ChargesOnlyTheCustomer ==
  [][\A p \in Procs :
       end_call_balance(p) =>
         LET additional_cost == proc[p].tot - proc[p].spent IN
           /\ proc'[p].pc = "ec_drop_update" =>
                get_user_coin_balance(proc[p].cu) < additional_cost
           /\ proc'[p].pc # "ec_drop_update" => proc'[p].wuser = proc[p].cu]_vars

\* C28: whenever no call operation is in progress, an account is flagged busy exactly
\* when it is a party of an ongoing session.
C28_BusyIffOnOngoingSession ==
  Quiescent => \A u \in Users : status[u].is_busy <=> OngoingWith(u) # {}

\* the money of the withdraw entries of wallet u
RECURSIVE SumWithdrawn(_)
SumWithdrawn(S) ==
  IF S = {} THEN 0
  ELSE LET e == CHOOSE x \in S : TRUE IN
         CopiesIn(e, tx) * (0 - e.money_change) + SumWithdrawn(S \ {e})

Withdrawn(u) == SumWithdrawn(Entries(u, {"withdraw"}))

WithdrawnBeyondProvision == \E u \in Listeners : Withdrawn(u) > ProvisionedMoney
====
